---- MODULE Spec2Model ----
(***************************************************************************)
(* A model of the e-commerce scripts: generatedata.py writes five CSV      *)
(* files, ingest_to_sqlite.py loads them into the SQLite file              *)
(* ecommerce.db, check_payment_amounts.py and the run_sales_forecast*.py   *)
(* scripts query that file and print a report.                             *)
(*                                                                         *)
(* Conventions.  Money is an exact number of cents (the generator rounds   *)
(* every price and amount to 2 decimals); an average is an exact rational  *)
(* [n, d] of cents.  A text date is the sequence of its digit groups and   *)
(* separators, <<group, sep, group, sep, group>>, a digit group being      *)
(* [v |-> value, w |-> number of digits].                                  *)
(***************************************************************************)
EXTENDS Integers, Sequences, FiniteSets, TLC

VARIABLES csv,      \* the five CSV files of the working directory
          db,       \* the five tables of ecommerce.db (committed contents)
          ingest,   \* ingest_to_sqlite.py: runs on the current CSV files and
                    \* the outcome of the last one
          out,      \* the analysis script run last and what it printed
          gen,      \* generatedata.py: position in the script, and the
                    \* values its random sources yield
          written   \* data rows put into CSV files from elsewhere so far

vars == <<csv, db, ingest, out, gen, written>>

\* SQL NULL and Python None; a nullable number is <<n>> or Null
Null == <<>>

----------------------------------------------------------------------------
(* Bounds of the model.                                                    *)

MaxCsvRows == 2     \* data rows written to the CSV files in one behaviour
MaxRuns == 2        \* runs of ingest_to_sqlite.py on the same CSV files

----------------------------------------------------------------------------
(* Dates: datetime.strptime, date.isoformat, strftime.                     *)

Tok(v, w) == [v |-> v, w |-> w]

IsLeap(y) == (y % 4 = 0 /\ y % 100 # 0) \/ y % 400 = 0

DaysInMonth(y, m) ==
    IF m = 2 THEN (IF IsLeap(y) THEN 29 ELSE 28)
    ELSE IF m \in {4, 6, 9, 11} THEN 30 ELSE 31

\* datetime(y, m, d) accepts the triple
ValidDate(y, m, d) ==
    /\ y \in 1..9999
    /\ m \in 1..12
    /\ d \in 1..DaysInMonth(y, m)

\* a calendar day
Day(y, m, d) == [y |-> y, m |-> m, d |-> d]

\* %m and %d match one or two digits, %Y exactly four
MatchesMD(t) == t.w \in {1, 2}
MatchesY(t) == t.w = 4

\* datetime.strptime(s, '%m/%d/%Y') does not raise ValueError
IsMDY(s) ==
    /\ s[2] = "/" /\ s[4] = "/"
    /\ MatchesMD(s[1]) /\ MatchesMD(s[3]) /\ MatchesY(s[5])
    /\ ValidDate(s[5].v, s[1].v, s[3].v)

\* datetime.strptime(s, '%Y-%m-%d') does not raise ValueError
IsYMD(s) ==
    /\ s[2] = "-" /\ s[4] = "-"
    /\ MatchesY(s[1]) /\ MatchesMD(s[3]) /\ MatchesMD(s[5])
    /\ ValidDate(s[1].v, s[3].v, s[5].v)

\* strptime with the format '%d/%m/%Y'
ParseDMY(s) == Day(s[5].v, s[3].v, s[1].v)

\* datetime.strptime(s, '%m/%d/%Y').date()
ParseMDY(s) == Day(s[5].v, s[1].v, s[3].v)

\* datetime.strptime(s, '%Y-%m-%d').date()
ParseYMD(s) == Day(s[1].v, s[3].v, s[5].v)

\* the try/except of the import loops raises: both strptime calls fail
DateRaises(s) == ~IsMDY(s) /\ ~IsYMD(s)

\* the try/except of the import loops: MM/DD/YYYY first, YYYY-MM-DD only in
\* the except branch
ParseDate(s) == IF IsMDY(s) THEN ParseMDY(s) ELSE ParseYMD(s)

\* date.isoformat(): YYYY-MM-DD, zero padded
IsoFormat(day) ==
    <<Tok(day.y, 4), "-", Tok(day.m, 2), "-", Tok(day.d, 2)>>

\* date.strftime('%m/%d/%Y'), zero padded
FormatMDY(day) ==
    <<Tok(day.m, 2), "/", Tok(day.d, 2), "/", Tok(day.y, 4)>>

----------------------------------------------------------------------------
(* Tables.  A table is the set of its rows; the INTEGER PRIMARY KEY makes  *)
(* the key column unique.                                                  *)

EmptyDb ==
    [customers |-> {}, products |-> {}, orders |-> {},
     order_items |-> {}, payments |-> {}]

\* the CSV files are a function from the names of the files that exist to
\* their data rows; NoCsv is a working directory without CSV files
CsvNames == {"customers", "products", "orders", "order_items", "payments"}

NoCsv == [f \in {} |-> <<>>]

\* no analysis script has run
NoOutput == [script |-> "none", printed |-> <<>>]

\* INSERT OR IGNORE: a row whose primary key is taken is dropped
InsertOrIgnore(table, key, row) ==
    IF \E r \in table : r[key] = row[key] THEN table ELSE table \cup {row}

\* INSERT without a conflict clause that drops the supplied key: the row
\* gets the next free rowid
InsertNewRowid(table, key, row) ==
    LET used == {r[key] : r \in table}
        next == IF used = {} THEN 1
                ELSE (CHOOSE k \in used : \A j \in used : j <= k) + 1
    IN  table \cup {[row EXCEPT ![key] = next]}

\* INSERT OR REPLACE INTO t: a row with the same primary key is deleted,
\* then the new row is inserted
InsertOrReplace(table, key, row) ==
    {r \in table : r[key] # row[key]} \cup {row}

\* cursor.executemany(INSERT OR REPLACE ..., rows): the rows in list order
RECURSIVE ExecuteMany(_, _, _)
ExecuteMany(table, key, rows) ==
    IF rows = <<>> THEN table
    ELSE ExecuteMany(InsertOrReplace(table, key, Head(rows)), key, Tail(rows))

----------------------------------------------------------------------------
(* The CSV files the environment can put in the working directory (the     *)
(* output of generatedata.py, or files from elsewhere).                    *)

Ids == {1, 2}
Names == {"Ann", "Bob"}

\* the same day in both accepted formats, and two strings neither accepts
\* (DD/MM/YYYY, and the 30th of February)
DateStrings ==
    {<<Tok(1, 2), "/", Tok(15, 2), "/", Tok(2006, 4)>>,
     <<Tok(2006, 4), "-", Tok(1, 2), "-", Tok(15, 2)>>,
     <<Tok(15, 2), "/", Tok(1, 2), "/", Tok(2006, 4)>>,
     <<Tok(2006, 4), "-", Tok(2, 2), "-", Tok(30, 2)>>}

CustomerRows == [customer_id : Ids, customer_name : Names]
ProductRows == [product_id : Ids, price : {500}]
OrderRows ==
    [order_id : Ids, customer_id : Ids, order_date : DateStrings,
     status : {"shipped"}]
OrderItemRows ==
    [item_id : Ids, order_id : Ids, product_id : Ids, quantity : {1, 2},
     price : {500}]
PaymentRows ==
    [payment_id : Ids, amount : {500}, order_id : Ids,
     payment_date : DateStrings]

NotIngested == [result |-> "none", runs |-> 0]

\* five CSV files holding at most n data rows together
CsvFileSets(n) ==
    UNION {[customers : [1..a -> CustomerRows],
            products : [1..b -> ProductRows],
            orders : [1..c -> OrderRows],
            order_items : [1..d -> OrderItemRows],
            payments : [1..e -> PaymentRows]] :
           <<a, b, c, d, e>> \in
               {t \in (0..n) \X (0..n) \X (0..n) \X (0..n) \X (0..n) :
                   t[1] + t[2] + t[3] + t[4] + t[5] <= n}}

CsvRowCount(files) ==
    Len(files.customers) + Len(files.products) + Len(files.orders)
        + Len(files.order_items) + Len(files.payments)

\* the environment replaces the five CSV files
WriteCsvFiles ==
    /\ written < MaxCsvRows
    /\ \E files \in CsvFileSets(MaxCsvRows - written) :
           /\ csv' = files
           /\ written' = written + CsvRowCount(files)
    /\ ingest' = NotIngested
    /\ UNCHANGED <<db, out, gen>>

----------------------------------------------------------------------------
(* ingest_to_sqlite.py                                                     *)

\* the tuples the import loops build from the rows of a CSV file
CustomerTuple(row) ==
    [customer_id |-> row.customer_id, customer_name |-> row.customer_name]

ProductTuple(row) ==
    [product_id |-> row.product_id, price |-> row.price]

OrderTuple(row) ==
    [order_id |-> row.order_id, customer_id |-> row.customer_id,
     order_date |-> IsoFormat(ParseDate(row.order_date)),
     status |-> row.status]

OrderItemTuple(row) ==
    [item_id |-> row.item_id, order_id |-> row.order_id,
     product_id |-> row.product_id, quantity |-> row.quantity,
     price |-> row.price]

PaymentTuple(row) ==
    [payment_id |-> row.payment_id, amount |-> row.amount,
     order_id |-> row.order_id,
     payment_date |-> IsoFormat(ParseDate(row.payment_date))]

\* open() raises FileNotFoundError, or the fallback strptime raises ValueError
IngestRaises(files) ==
    \/ DOMAIN files # CsvNames
    \/ \E i \in DOMAIN files.orders :
           DateRaises(files.orders[i].order_date)
    \/ \E i \in DOMAIN files.payments :
           DateRaises(files.payments[i].payment_date)

\* the five executemany calls, then conn.commit().  No PRAGMA foreign_keys
\* is issued on the connection, so SQLite does not check the FOREIGN KEY
\* clauses of the schema
Imported(tables, files) ==
    [customers |->
        ExecuteMany(tables.customers, "customer_id",
                    [i \in DOMAIN files.customers |->
                        CustomerTuple(files.customers[i])]),
     products |->
        ExecuteMany(tables.products, "product_id",
                    [i \in DOMAIN files.products |->
                        ProductTuple(files.products[i])]),
     orders |->
        ExecuteMany(tables.orders, "order_id",
                    [i \in DOMAIN files.orders |->
                        OrderTuple(files.orders[i])]),
     order_items |->
        ExecuteMany(tables.order_items, "item_id",
                    [i \in DOMAIN files.order_items |->
                        OrderItemTuple(files.order_items[i])]),
     payments |->
        ExecuteMany(tables.payments, "payment_id",
                    [i \in DOMAIN files.payments |->
                        PaymentTuple(files.payments[i])])]

\* the tables as the connection sees them when the script stops: the
\* executemany calls that ran before the exception have been executed inside
\* the open transaction.  A missing customers.csv stops the script at the
\* first open(); a date that matches neither format stops it inside the
\* loop over that file, before that file's executemany
Pending(tables, files) ==
    IF DOMAIN files # CsvNames
    THEN tables
    ELSE LET all == Imported(tables, files)
         IN  IF \E i \in DOMAIN files.orders :
                    DateRaises(files.orders[i].order_date)
             THEN [tables EXCEPT !.customers = all.customers,
                                 !.products = all.products]
             ELSE IF \E i \in DOMAIN files.payments :
                         DateRaises(files.payments[i].payment_date)
                  THEN [all EXCEPT !.payments = tables.payments]
                  ELSE all

\* a connection in autocommit mode: every statement is committed as it runs
AutoCommit(committed, pending) == pending

\* the process ends with the transaction open (conn.commit() was not
\* reached): SQLite discards the uncommitted statements
Rollback(committed, pending) == committed

\* one run of the script.  An exception ends the process before
\* conn.commit(): the open transaction is rolled back
Ingest ==
    /\ ingest.runs < MaxRuns
    /\ IF IngestRaises(csv)
       THEN /\ ingest' = [result |-> "raised", runs |-> ingest.runs + 1]
            /\ db' = Rollback(db, Pending(db, csv))
       ELSE /\ ingest' = [result |-> "ok", runs |-> ingest.runs + 1]
            /\ db' = Imported(db, csv)
    /\ UNCHANGED <<csv, out, gen, written>>

----------------------------------------------------------------------------
(* SQL values and arithmetic shared by the forecast queries.               *)

\* storage classes: strftime() yields TEXT, CAST(... AS INTEGER) and
\* arithmetic yield numbers
SqlText(v) == [class |-> "text", v |-> v]
SqlInt(v) == [class |-> "integer", v |-> v]

\* a = b between two expressions (no column affinity takes part): values of
\* different storage classes are never equal
SqlEq(a, b) == a.class = b.class /\ a.v = b.v

\* a - n: the arithmetic operator casts a TEXT operand to a number
SqlMinus(a, n) == SqlInt(a.v - n)

\* ROUND(n / d, 0) for d > 0: to the nearest integer, halves away from zero
RoundDiv(n, d) ==
    IF n >= 0 THEN (2 * n + d) \div (2 * d)
    ELSE 0 - ((2 * (0 - n) + d) \div (2 * d))

\* the '%Y-%m', '%Y' and '%m' strftime of a stored date
MonthText(date) == <<date[1], "-", date[3]>>
YearText(date) == SqlText(date[1].v)
MonthNum(date) == SqlInt(date[3].v)

\* the sum of quantity * price over a set of line items
RECURSIVE SumItems(_)
SumItems(items) ==
    IF items = {} THEN 0
    ELSE LET i == CHOOSE x \in items : TRUE
         IN  i.quantity * i.price + SumItems(items \ {i})

\* FROM orders o LEFT JOIN order_items oi ON o.order_id = oi.order_id: an
\* order without items is kept, with NULL item columns (0 in the sum)
LeftJoinItems(tables) ==
    {<<o, i>> \in tables.orders \X tables.order_items :
        o.order_id = i.order_id}
    \cup {<<o, [item_id |-> 0, order_id |-> o.order_id, product_id |-> 0,
                quantity |-> 0, price |-> 0]>> :
            o \in {x \in tables.orders :
                     \A i \in tables.order_items : i.order_id # x.order_id}}

\* FROM orders o INNER JOIN order_items oi ON o.order_id = oi.order_id
InnerJoinItems(tables) ==
    {<<o, i>> \in tables.orders \X tables.order_items :
        o.order_id = i.order_id}

\* the monthly_revenue CTE: GROUP BY strftime('%Y-%m', o.order_date)
MonthlyRevenue(tables) ==
    LET joined == InnerJoinItems(tables)
        months == {MonthText(p[1].order_date) : p \in joined}
        group(m) == {p \in joined : MonthText(p[1].order_date) = m}
        any(m) == (CHOOSE p \in group(m) : TRUE)[1].order_date
    IN  {[month |-> m,
          year |-> YearText(any(m)),
          month_num |-> MonthNum(any(m)),
          total_revenue |-> SumItems({p[2] : p \in group(m)}),
          order_count |-> Cardinality({p[1].order_id : p \in group(m)})] :
         m \in months}

\* ORDER BY year, month_num
RECURSIVE OrderByYearMonth(_)
OrderByYearMonth(rows) ==
    IF rows = {} THEN <<>>
    ELSE LET first == CHOOSE r \in rows : \A q \in rows :
                          \/ r.year.v < q.year.v
                          \/ r.year.v = q.year.v
                             /\ r.month_num.v <= q.month_num.v
         IN  <<first>> \o OrderByYearMonth(rows \ {first})

\* the trend label of a revenue_change; revenue_change is total_revenue -
\* COALESCE(previous, 0), never NULL, so the ELSE 'N/A' of the window
\* scripts' CASE is not taken
TrendLabel(change) ==
    IF change > 0 THEN "Growing"
    ELSE IF change < 0 THEN "Declining" ELSE "Stable"

\* the sum of a sequence of numbers
RECURSIVE SumSeq(_)
SumSeq(q) == IF q = <<>> THEN 0 ELSE Head(q) + SumSeq(Tail(q))

\* the columns a window's ORDER BY can name in the SELECT that groups
\* orders and order_items: those of the two tables, not the aliases of the
\* SELECT's own result columns
OrdersColumns == {"order_id", "customer_id", "order_date", "status"}
OrderItemsColumns == {"item_id", "order_id", "product_id", "quantity", "price"}

\* ROW_NUMBER() OVER (ORDER BY year, month_num) inside the monthly_revenue
\* CTE of the trend and forecast queries: 'no such column: year'
RowNumberWindowRaises ==
    ~({"year", "month_num"} \subseteq OrdersColumns \cup OrderItemsColumns)

\* COALESCE(x, v)
Coalesce(x, v) == IF x = Null THEN v ELSE x[1]

\* the terminal after a run: the script's name and what it printed
Printed(script, output) == [script |-> script, printed |-> output]

----------------------------------------------------------------------------
(* run_sales_forecast_simple.py (and run_sales_forecast.py, whose queries  *)
(* are the same statements read through pandas).  Percentages are in       *)
(* hundredths of a percent.                                                *)

\* the average over the whole partition, the window without a frame end
PartitionAverage(changes, k) == RoundDiv(SumSeq(changes), Len(changes))

\* ROUND(AVG(...) OVER (ORDER BY year, month_num ROWS BETWEEN UNBOUNDED
\* PRECEDING AND CURRENT ROW), 2) at row k
RunningAverage(changes, k) == RoundDiv(SumSeq(SubSeq(changes, 1, k)), k)

\* monthly_with_previous (LAG), monthly_trends and the final SELECT over the
\* months m in window order
WindowRows(m) ==
    LET prev(k) == IF k = 1 THEN Null ELSE <<m[k - 1].total_revenue>>
        change(k) == m[k].total_revenue - Coalesce(prev(k), 0)
        pct(k) ==
            IF prev(k) # Null /\ prev(k)[1] > 0
            THEN <<RoundDiv((m[k].total_revenue - prev(k)[1]) * 10000,
                            prev(k)[1])>>
            ELSE Null
        avg(k) == RunningAverage([j \in DOMAIN m |-> change(j)], k)
    IN  [k \in DOMAIN m |->
            [month |-> m[k].month,
             monthly_revenue |-> m[k].total_revenue,
             order_count |-> m[k].order_count,
             previous_month_revenue |-> Coalesce(prev(k), 0),
             revenue_change |-> change(k),
             percent_change |-> Coalesce(pct(k), 0),
             trend |-> TrendLabel(change(k)),
             forecast_next_month |-> m[k].total_revenue + avg(k)]]

\* query
WindowQuery(tables) == WindowRows(OrderByYearMonth(MonthlyRevenue(tables)))

\* COUNT(*) and ROUND(SUM(total_revenue), 2) over the months a summary
\* query keeps
SummaryOf(kept) ==
    [total_months |-> Len(kept),
         total_revenue |->
            IF kept = <<>> THEN Null
            ELSE <<SumSeq([k \in DOMAIN kept |-> kept[k].total_revenue])>>]

\* summary_query: the months whose LAG is not NULL, i.e. all but the first
WindowSummary(tables) ==
    LET m == OrderByYearMonth(MonthlyRevenue(tables))
    IN  SummaryOf(SubSeq(m, 2, Len(m)))

\* the script up to the exception that ends it: the summary prints raise
\* TypeError on a None (fewer than two months), otherwise executing
\* trend_query raises OperationalError; the forecast section is not reached
SimpleOutput(tables) ==
    LET summary == WindowSummary(tables)
    IN  [rows |-> WindowQuery(tables),
         summary |-> summary,
         raised |-> IF summary.total_revenue = Null THEN "TypeError"
                    ELSE IF RowNumberWindowRaises THEN "OperationalError"
                    ELSE "none",
         forecast |-> <<>>]

RunSalesForecastSimple ==
    /\ out' = Printed("run_sales_forecast_simple", SimpleOutput(db))
    /\ UNCHANGED <<csv, db, ingest, gen, written>>

\* run_sales_forecast.py: pandas prints the summary frame whatever it
\* holds; read_sql_query(trend_query) raises
PandasOutput(tables) ==
    [rows |-> WindowQuery(tables),
     summary |-> WindowSummary(tables),
     raised |-> IF RowNumberWindowRaises THEN "DatabaseError" ELSE "none",
     forecast |-> <<>>]

RunSalesForecast ==
    /\ out' = Printed("run_sales_forecast", PandasOutput(db))
    /\ UNCHANGED <<csv, db, ingest, gen, written>>

----------------------------------------------------------------------------
(* run_sales_forecast_compatible.py and run_sales_forecast_with_graphs.py  *)

\* the ON clause of the self-join: m2 is the month before m1.  year is
\* TEXT, m1.year - 1 is a number
IsPreviousMonth(m2, m1) ==
    \/ /\ SqlEq(m2.year, m1.year)
       /\ SqlEq(m2.month_num, SqlMinus(m1.month_num, 1))
    \/ /\ SqlEq(m2.year, SqlMinus(m1.year, 1))
       /\ SqlEq(m1.month_num, SqlInt(1))
       /\ SqlEq(m2.month_num, SqlInt(12))

\* monthly_revenue m1 LEFT JOIN monthly_revenue m2 and the final SELECT, m
\* being the months in the order of ORDER BY m1.year, m1.month_num (a month
\* has at most one row, so the join yields one row per m1)
SelfJoinRows(months, m) ==
    LET match(k) == {m2 \in months : IsPreviousMonth(m2, m[k])}
        prev(k) == IF match(k) = {} THEN Null
                   ELSE <<(CHOOSE m2 \in match(k) : TRUE).total_revenue>>
        change(k) == m[k].total_revenue - Coalesce(prev(k), 0)
    IN  [k \in DOMAIN m |->
            [month |-> m[k].month,
             monthly_revenue |-> m[k].total_revenue,
             order_count |-> m[k].order_count,
             previous_month_revenue |-> Coalesce(prev(k), 0),
             revenue_change |-> change(k),
             percent_change |->
                IF prev(k) # Null /\ prev(k)[1] > 0
                THEN RoundDiv((m[k].total_revenue - prev(k)[1]) * 10000,
                              prev(k)[1])
                ELSE 0,
             trend |-> TrendLabel(change(k))]]

\* query
SelfJoinQuery(tables) ==
    SelfJoinRows(MonthlyRevenue(tables),
                 OrderByYearMonth(MonthlyRevenue(tables)))

\* summary_query of the self-join scripts: all months
SelfJoinSummary(tables) ==
    SummaryOf(OrderByYearMonth(MonthlyRevenue(tables)))

\* revenue_changes: the non-zero changes of the result rows
RevenueChanges(rows) ==
    LET IsNonZero(c) == c # 0
    IN  SelectSeq([k \in DOMAIN rows |-> rows[k].revenue_change], IsNonZero)

\* avg_growth, a rational number of cents
AvgGrowth(rows) ==
    IF RevenueChanges(rows) = <<>> THEN [n |-> 0, d |-> 1]
    ELSE [n |-> SumSeq(RevenueChanges(rows)), d |-> Len(RevenueChanges(rows))]

LastMonthRevenue(rows) ==
    IF rows = <<>> THEN 0 ELSE rows[Len(rows)].monthly_revenue

\* the three lines printed with {last_month_revenue + avg_growth * k:,.2f}
ForecastLines(rows) ==
    LET g == AvgGrowth(rows)
    IN  [k \in 1..3 |-> RoundDiv(LastMonthRevenue(rows) * g.d + k * g.n, g.d)]

\* the script up to its forecast section: the summary prints raise
\* TypeError on a None when no month has revenue
SelfJoinOutput(tables) ==
    LET rows == SelfJoinQuery(tables)
        summary == SelfJoinSummary(tables)
        failed == summary.total_revenue = Null
    IN  [rows |-> rows,
         summary |-> summary,
         raised |-> IF failed THEN "TypeError" ELSE "none",
         forecast |-> IF failed THEN <<>> ELSE ForecastLines(rows)]

\* the three-way print of the trend direction
TrendDirection(slope) ==
    IF slope > 0 THEN "Positive Trend (Growing)"
    ELSE IF slope < 0 THEN "Negative Trend (Declining)"
    ELSE "Stable"

\* the largest minus the smallest number of a non-empty set
Spread(values) ==
    (CHOOSE x \in values : \A y \in values : y <= x)
        - (CHOOSE x \in values : \A y \in values : x <= y)

\* overall_slope of trend_query over the months m, month_sequence being
\* 1..Len(m): (MAX - MIN) / NULLIF(MAX(seq) - MIN(seq), 0), rounded
TrendQuerySlope(m) ==
    IF Len(m) <= 1 THEN Null
    ELSE <<RoundDiv(Spread({m[k].total_revenue : k \in DOMAIN m}),
                    Len(m) - 1)>>

\* a slope from the spread of the monthly revenues, as in trend_query
SpreadSlope(rows) ==
    IF Len(rows) > 1
    THEN [n |-> Spread({rows[k].monthly_revenue : k \in DOMAIN rows}),
          d |-> Len(rows) - 1]
    ELSE [n |-> 0, d |-> 1]

\* the except branch: slope between the first and the last result row,
\* printed with 2 decimals
FallbackSlope(rows) ==
    IF Len(rows) > 1
    THEN [n |-> rows[Len(rows)].monthly_revenue - rows[1].monthly_revenue,
          d |-> Len(rows) - 1]
    ELSE [n |-> 0, d |-> 1]

NoTrend == [query |-> "not executed", path |-> "none", slope |-> 0,
            direction |-> "none"]

\* the overall trend section of run_sales_forecast_compatible.py: the try
\* block executes trend_query and prints its row; the bare except takes
\* over when execute raises (the ROW_NUMBER window) or when the print of a
\* NULL overall_slope raises TypeError, and prints nothing without result
\* rows
TrendSection(tables, rows) ==
    LET slope == TrendQuerySlope(OrderByYearMonth(MonthlyRevenue(tables)))
        query == IF RowNumberWindowRaises THEN "OperationalError"
                 ELSE IF slope = Null THEN "TypeError" ELSE "ok"
    IN  IF query = "ok"
        THEN [query |-> query, path |-> "try", slope |-> slope[1],
              direction |-> TrendDirection(slope[1])]
        ELSE IF rows = <<>>
        THEN [NoTrend EXCEPT !.query = query]
        ELSE [query |-> query, path |-> "except",
              slope |-> RoundDiv(FallbackSlope(rows).n, FallbackSlope(rows).d),
              direction |-> TrendDirection(FallbackSlope(rows).n)]

\* run_sales_forecast_compatible.py to its last line
CompatibleOutput(tables) ==
    LET printed == SelfJoinOutput(tables)
    IN  [rows |-> printed.rows,
         summary |-> printed.summary,
         raised |-> printed.raised,
         forecast |-> printed.forecast,
         trend |-> IF printed.raised = "none"
                   THEN TrendSection(tables, printed.rows) ELSE NoTrend,
         complete |-> printed.raised = "none"]

RunSalesForecastCompatible ==
    /\ out' = Printed("run_sales_forecast_compatible", CompatibleOutput(db))
    /\ UNCHANGED <<csv, db, ingest, gen, written>>

\* datetime.strptime(m, '%Y-%m') of a printed month: its first day
MonthDate(month) == Day(month[1].v, month[3].v, 1)

\* forecast_date of pass i of the loop; forecast_start_date stays the last
\* month with data in every pass
ForecastDate(forecast_start_date, i) ==
    IF forecast_start_date.m = 12
    THEN Day(forecast_start_date.y + 1, 1, 1)
    ELSE Day(forecast_start_date.y, forecast_start_date.m + i, 1)

\* the loop over range(1, 4): datetime(y, m, 1) raises ValueError when m is
\* not a month, which ends the script; forecast_dates holds the dates
\* appended before
ForecastDatesLoop(forecast_start_date) ==
    LET dates == [i \in 1..3 |-> ForecastDate(forecast_start_date, i)]
        built == {i \in 0..3 : \A j \in 1..i :
                     ValidDate(dates[j].y, dates[j].m, dates[j].d)}
        last == CHOOSE i \in built : \A j \in built : j <= i
    IN  [raised |-> IF last < 3 THEN "ValueError" ELSE "none",
         forecast_dates |-> SubSeq(dates, 1, last)]

\* run_sales_forecast_with_graphs.py to the forecast dates of its third
\* plot: the printed sections of the self-join script, then the figure
WithGraphsOutput(tables) ==
    LET printed == SelfJoinOutput(tables)
        plotted == ForecastDatesLoop(
                       MonthDate(printed.rows[Len(printed.rows)].month))
    IN  [rows |-> printed.rows,
         summary |-> printed.summary,
         forecast |-> printed.forecast,
         raised |-> IF printed.raised # "none" THEN printed.raised
                    ELSE plotted.raised,
         forecast_dates |-> IF printed.raised # "none" THEN <<>>
                            ELSE plotted.forecast_dates]

RunSalesForecastWithGraphs ==
    /\ out' = Printed("run_sales_forecast_with_graphs", WithGraphsOutput(db))
    /\ UNCHANGED <<csv, db, ingest, gen, written>>

----------------------------------------------------------------------------
(* generatedata.py.  The script builds five lists one after the other and  *)
(* writes each to its CSV file; the later loops read the earlier lists.    *)
(* The sizes are scaled down: the script makes 100 customers, 50 products  *)
(* and 200 orders.                                                         *)

NUM_CUSTOMERS == 2
NUM_PRODUCTS == 2
NUM_ORDERS == 2
MIN_ITEMS_PER_ORDER == 1
MAX_ITEMS_PER_ORDER == 5

start_date == Day(2006, 1, 1)
end_date == Day(2007, 12, 31)

Min(a, b) == IF a < b THEN a ELSE b

\* a > b for calendar days
After(a, b) ==
    \/ a.y > b.y
    \/ a.y = b.y /\ a.m > b.m
    \/ a.y = b.y /\ a.m = b.m /\ a.d > b.d

\* day + timedelta(days=n)
RECURSIVE AddDays(_, _)
AddDays(day, n) ==
    IF n = 0 THEN day
    ELSE IF day.d < DaysInMonth(day.y, day.m)
         THEN AddDays(Day(day.y, day.m, day.d + 1), n - 1)
    ELSE IF day.m < 12 THEN AddDays(Day(day.y, day.m + 1, 1), n - 1)
    ELSE AddDays(Day(day.y + 1, 1, 1), n - 1)

\* A behaviour of the generator fixes, for each random source of the
\* script, the values the source yields in it (a part of the source's
\* range).  Prices are cents, factors are percent.
\* the keys vary: customer of an order, number of items, sampled products
KeyDraws ==
    [customer_id |-> 1..NUM_CUSTOMERS,
     num_items |-> MIN_ITEMS_PER_ORDER..MAX_ITEMS_PER_ORDER,
     product_id |-> 1..NUM_PRODUCTS,
     customer_name |-> {"Ann"}, status |-> {"shipped"},
     base_price |-> {1999}, order_date |-> {Day(2006, 1, 1)},
     quantity |-> {1}, factor |-> {100}, days_after |-> {0},
     amount |-> {5000}]

\* the values vary: order date (the last one 3 days before end_date),
\* quantity, price at the time of the order, delay of the payment
ValueDraws ==
    [customer_id |-> {1},
     num_items |-> {MIN_ITEMS_PER_ORDER},
     product_id |-> {1},
     customer_name |-> {"Ann"}, status |-> {"shipped"},
     base_price |-> {1999}, order_date |-> {Day(2006, 2, 27), Day(2007, 12, 28)},
     quantity |-> {1, 5}, factor |-> {90, 110}, days_after |-> {0, 7},
     amount |-> {5000}]

\* the amounts vary: one or two items of an order, their products and
\* quantities, with every price 10% under the product's price
AmountDraws ==
    [customer_id |-> {1},
     num_items |-> {MIN_ITEMS_PER_ORDER, MIN_ITEMS_PER_ORDER + 1},
     product_id |-> {1, 2},
     customer_name |-> {"Ann"}, status |-> {"shipped"},
     base_price |-> {1999}, order_date |-> {Day(2006, 1, 1)},
     quantity |-> {1, 5}, factor |-> {90}, days_after |-> {0},
     amount |-> {5000}]

DrawProfiles == {KeyDraws, ValueDraws, AmountDraws}

NotGenerating == [pc |-> "start", draws |-> KeyDraws]

\* open(name, 'w') and writer.writerows(rows)
WriteFile(files, name, rows) ==
    [f \in DOMAIN files \cup {name} |-> IF f = name THEN rows ELSE files[f]]

\* customers.csv: customer_id 1..NUM_CUSTOMERS, the other columns from Faker
GenCustomers ==
    /\ gen.pc = "start"
    /\ \E name \in [1..NUM_CUSTOMERS -> gen.draws.customer_name] :
           csv' = WriteFile(csv, "customers",
                      [i \in 1..NUM_CUSTOMERS |->
                          [customer_id |-> i, customer_name |-> name[i]]])
    /\ gen' = [gen EXCEPT !.pc = "customers"]
    /\ ingest' = NotIngested
    /\ UNCHANGED <<db, out, written>>

\* products.csv: product_id 1..NUM_PRODUCTS,
\* price = round(random.uniform(10.0, 1000.0), 2)
GenProducts ==
    /\ gen.pc = "customers"
    /\ \E price \in [1..NUM_PRODUCTS -> gen.draws.base_price \cap (1000..100000)] :
           csv' = WriteFile(csv, "products",
                      [i \in 1..NUM_PRODUCTS |->
                          [product_id |-> i, price |-> price[i]]])
    /\ gen' = [gen EXCEPT !.pc = "products"]
    /\ ingest' = NotIngested
    /\ UNCHANGED <<db, out, written>>

\* fake.date_between(start_date, end_date)
DateBetween(days) ==
    {day \in days : ~After(start_date, day) /\ ~After(day, end_date)}

\* orders.csv: order_id 1..NUM_ORDERS, customer_id =
\* random.randint(1, NUM_CUSTOMERS), order_date.strftime('%m/%d/%Y')
GenOrders ==
    /\ gen.pc = "products"
    /\ \E customer \in [1..NUM_ORDERS ->
                           gen.draws.customer_id \cap (1..NUM_CUSTOMERS)],
          order_date \in [1..NUM_ORDERS -> DateBetween(gen.draws.order_date)],
          status \in [1..NUM_ORDERS -> gen.draws.status] :
           csv' = WriteFile(csv, "orders",
                      [i \in 1..NUM_ORDERS |->
                          [order_id |-> i, customer_id |-> customer[i],
                           order_date |-> FormatMDY(order_date[i]),
                           status |-> status[i]]])
    /\ gen' = [gen EXCEPT !.pc = "orders"]
    /\ ingest' = NotIngested
    /\ UNCHANGED <<db, out, written>>

\* random.sample(population, n): n distinct elements in some order
Samples(population, n) ==
    {s \in [1..n -> population] :
        \A i, j \in 1..n : i # j => s[i] # s[j]}

\* the draws of the inner loop for one order: the sampled products, and a
\* quantity (random.randint(1, 5)) and a price factor
\* (random.uniform(0.9, 1.1)) for each
ItemDraws(draws) ==
    UNION {{[i \in 1..n |-> [product_id |-> s[i], quantity |-> q[i],
                             factor |-> f[i]]] :
               s \in Samples(draws.product_id \cap (1..NUM_PRODUCTS), n),
               q \in [1..n -> draws.quantity \cap (1..5)],
               f \in [1..n -> draws.factor \cap (90..110)]} :
           n \in {Min(num_items, NUM_PRODUCTS) :
                     num_items \in draws.num_items
                         \cap (MIN_ITEMS_PER_ORDER..MAX_ITEMS_PER_ORDER)}}

\* product_prices = {p['product_id']: p['price'] for p in products}
ProductPrices(products) ==
    [id \in {products[i].product_id : i \in DOMAIN products} |->
        products[CHOOSE i \in DOMAIN products :
                    /\ products[i].product_id = id
                    /\ \A j \in DOMAIN products :
                           products[j].product_id = id => j <= i].price]

\* the counter set back to 1 for each order
ItemIdPerOrder(appended, i) == i

\* the item_id counter: one number for each row appended so far, plus one
NextItemId(appended, i) == Len(appended) + i

\* the rows the outer loop appends for the first n orders
RECURSIVE OrderItemsOf(_, _, _, _)
OrderItemsOf(orders, product_prices, picks, n) ==
    IF n = 0 THEN <<>>
    ELSE LET appended == OrderItemsOf(orders, product_prices, picks, n - 1)
         IN  appended \o
             [i \in 1..Len(picks[n]) |->
                 [item_id |-> NextItemId(appended, i),
                  order_id |-> orders[n].order_id,
                  product_id |-> picks[n][i].product_id,
                  quantity |-> picks[n][i].quantity,
                  price |-> RoundDiv(product_prices[picks[n][i].product_id]
                                         * picks[n][i].factor, 100)]]

\* order_items.csv
GenOrderItems ==
    /\ gen.pc = "orders"
    /\ \E picks \in [DOMAIN csv.orders -> ItemDraws(gen.draws)] :
           csv' = WriteFile(csv, "order_items",
                      OrderItemsOf(csv.orders, ProductPrices(csv.products),
                                   picks, Len(csv.orders)))
    /\ gen' = [gen EXCEPT !.pc = "order_items"]
    /\ ingest' = NotIngested
    /\ UNCHANGED <<db, out, written>>

\* the prices summed per order_id, quantities left out
PriceTotals(order_items) ==
    [id \in {order_items[i].order_id : i \in DOMAIN order_items} |->
        SumSeq([i \in DOMAIN order_items |->
                   IF order_items[i].order_id = id
                   THEN order_items[i].price ELSE 0])]

\* order_totals: quantity * price summed per order_id
OrderTotals(order_items) ==
    [id \in {order_items[i].order_id : i \in DOMAIN order_items} |->
        SumSeq([i \in DOMAIN order_items |->
                   IF order_items[i].order_id = id
                   THEN order_items[i].quantity * order_items[i].price
                   ELSE 0])]

\* order_date + timedelta(days=days_after_order) without the end_date test
PaymentDateUncapped(order_date, days_after_order) ==
    AddDays(ParseMDY(order_date), days_after_order)

\* order_date + timedelta(days=days_after_order), not after end_date
PaymentDate(order_date, days_after_order) ==
    LET payment_date == AddDays(ParseMDY(order_date), days_after_order)
    IN  IF After(payment_date, end_date) THEN end_date ELSE payment_date

\* payments.csv: one payment per order, payment_id counting from 1,
\* amount = round(order_totals.get(order_id, random.uniform(50.0, 500.0)), 2)
GenPayments ==
    /\ gen.pc = "order_items"
    /\ LET order_totals == OrderTotals(csv.order_items)
       IN  \E days \in [DOMAIN csv.orders ->
                           gen.draws.days_after \cap (0..7)],
              other \in [DOMAIN csv.orders ->
                           gen.draws.amount \cap (5000..50000)] :
               csv' = WriteFile(csv, "payments",
                          [k \in DOMAIN csv.orders |->
                              [payment_id |-> k,
                               amount |->
                                   IF csv.orders[k].order_id
                                          \in DOMAIN order_totals
                                   THEN order_totals[csv.orders[k].order_id]
                                   ELSE other[k],
                               order_id |-> csv.orders[k].order_id,
                               payment_date |->
                                   FormatMDY(PaymentDate(
                                       csv.orders[k].order_date, days[k]))]])
    /\ gen' = [gen EXCEPT !.pc = "payments"]
    /\ ingest' = NotIngested
    /\ UNCHANGED <<db, out, written>>

\* one run of the script in a directory without CSV files
InitGen ==
    /\ csv = NoCsv
    /\ db = EmptyDb
    /\ ingest = NotIngested
    /\ out = NoOutput
    /\ gen \in [pc : {"start"}, draws : DrawProfiles]
    /\ written = 0

NextGen ==
    \/ GenCustomers
    \/ GenProducts
    \/ GenOrders
    \/ GenOrderItems
    \/ GenPayments

SpecGen == InitGen /\ [][NextGen]_vars

----------------------------------------------------------------------------
(* The databases the forecast scripts are run on: orders 1..n and line     *)
(* items 1..m as an ingestion leaves them (ISO dates, unique keys, foreign *)
(* keys unchecked).                                                        *)

MaxOrders == 2      \* rows of the orders table
MaxItems == 2       \* rows of the order_items table

\* two days of one month, the month before and the month after, the last
\* in the next year
ForecastDates ==
    {<<Tok(2006, 4), "-", Tok(11, 2), "-", Tok(15, 2)>>,
     <<Tok(2006, 4), "-", Tok(12, 2), "-", Tok(10, 2)>>,
     <<Tok(2006, 4), "-", Tok(12, 2), "-", Tok(28, 2)>>,
     <<Tok(2007, 4), "-", Tok(1, 2), "-", Tok(20, 2)>>}

\* the database with the given order dates, and line items of the given
\* orders and quantities
ForecastDatabase(dates, of, qty) ==
    [customers |-> {}, products |-> {}, payments |-> {},
     orders |-> {[order_id |-> k, customer_id |-> 1,
                  order_date |-> dates[k], status |-> "shipped"] :
                 k \in DOMAIN dates},
     order_items |-> {[item_id |-> k, order_id |-> of[k], product_id |-> 1,
                       quantity |-> qty[k], price |-> 500] :
                      k \in DOMAIN of}]

InitForecast ==
    /\ csv = NoCsv
    /\ \E n \in 0..MaxOrders, m \in 0..MaxItems :
          \E dates \in [1..n -> ForecastDates],
             of \in [1..m -> 1..MaxOrders],
             qty \in [1..m -> {1, 2}] :
                db = ForecastDatabase(dates, of, qty)
    /\ ingest = NotIngested
    /\ out = NoOutput
    /\ gen = NotGenerating
    /\ written = 0

NextForecast ==
    \/ RunSalesForecastSimple
    \/ RunSalesForecast
    \/ RunSalesForecastCompatible
    \/ RunSalesForecastWithGraphs

SpecForecast == InitForecast /\ [][NextForecast]_vars

----------------------------------------------------------------------------
(* check_payment_amounts.py                                                *)

Abs(n) == IF n < 0 THEN 0 - n ELSE n

\* The REAL columns are IEEE doubles: the difference of two amounts one
\* cent apart is a little below or a little above the double 0.01.  The
\* pairs <<a, a + 1>> of cents whose difference compares below 0.01 in
\* SQLite, among the amounts of this model (5.00 and 5.01: 0.00999...979;
\* 19.99 and 20.00: 0.01000...156)
CentApartBelow == {<<500, 501>>, <<1000, 1001>>, <<1500, 1501>>}

\* ABS(total - amount) < 0.01
LessThanCent(total, amount) ==
    IF Abs(total - amount) = 1
    THEN <<Min(total, amount), Min(total, amount) + 1>> \in CentApartBelow
    ELSE Abs(total - amount) < 1

\* LEFT JOIN order_items oi ON o.order_id = oi.order_id
JoinedItems(tables, o) ==
    {oi \in tables.order_items : oi.order_id = o.order_id}

\* LEFT JOIN payments p ON o.order_id = p.order_id
JoinedPayments(tables, o) ==
    {p \in tables.payments : p.order_id = o.order_id}

\* GROUP BY o.order_id, o.order_date, o.status, p.amount: the groups of an
\* order are the distinct amounts of its payments, one NULL group when it
\* has no payment
GroupAmounts(tables, o) ==
    IF JoinedPayments(tables, o) = {} THEN {Null}
    ELSE {<<p.amount>> : p \in JoinedPayments(tables, o)}

\* SUM(oi.quantity * oi.price) over the joined rows of a group.  The two
\* LEFT JOINs pair every item of the order with every payment of the order,
\* so an item is summed once for each payment of the group's amount; the sum
\* over an order without items is NULL
GroupSum(tables, o, amount) ==
    LET copies == IF amount = Null THEN 1
                  ELSE Cardinality({p \in JoinedPayments(tables, o) :
                                       p.amount = amount[1]})
    IN  IF JoinedItems(tables, o) = {} THEN Null
        ELSE <<copies * SumItems(JoinedItems(tables, o))>>

\* one row of the result; a comparison with the NULL amount is NULL, which
\* the CASE takes for false
ResultRow(tables, o, amount) ==
    LET order_total == Coalesce(GroupSum(tables, o, amount), 0)
    IN  [order_id |-> o.order_id,
         order_total |-> order_total,
         payment_amount |-> amount,
         status_check |->
             IF amount # Null /\ LessThanCent(order_total, amount[1])
             THEN "MATCH" ELSE "MISMATCH",
         difference |->
             IF amount = Null THEN Null
             ELSE <<Abs(order_total - amount[1])>>]

\* ORDER BY o.order_id; the groups of one order come out of the GROUP BY
\* sorted by p.amount
RECURSIVE OrderByOrderId(_)
OrderByOrderId(rows) ==
    IF rows = {} THEN <<>>
    ELSE LET first == CHOOSE r \in rows : \A q \in rows \ {r} :
                          \/ r.order_id < q.order_id
                          \/ /\ r.order_id = q.order_id
                             /\ r.payment_amount[1] < q.payment_amount[1]
         IN  <<first>> \o OrderByOrderId(rows \ {first})

\* query
ReconcileQuery(tables) ==
    OrderByOrderId(UNION {{ResultRow(tables, o, amount) :
                              amount \in GroupAmounts(tables, o)} :
                          o \in tables.orders})

\* the rows of a sequence that satisfy a test, in order
RECURSIVE SelectRows(_, _)
SelectRows(rows, keep) ==
    IF rows = <<>> THEN <<>>
    ELSE (IF Head(rows) \in keep THEN <<Head(rows)>> ELSE <<>>)
             \o SelectRows(Tail(rows), keep)

\* the rows a loop prints before the f-string raises TypeError on a
\* difference that is None
RECURSIVE PrintedRows(_)
PrintedRows(rows) ==
    IF rows = <<>> \/ Head(rows).difference = Null THEN <<>>
    ELSE <<Head(rows)>> \o PrintedRows(Tail(rows))

\* a set of rows in the order of a key column
RECURSIVE OrderByKey(_, _)
OrderByKey(rows, key) ==
    IF rows = {} THEN <<>>
    ELSE LET first == CHOOSE r \in rows : \A q \in rows : r[key] <= q[key]
         IN  <<first>> \o OrderByKey(rows \ {first}, key)

\* the orders without payments: WHERE p.payment_id IS NULL, GROUP BY
\* o.order_id
OrdersWithoutPayments(tables) ==
    OrderByKey({[order_id |-> o.order_id,
                 order_total |-> SumItems(JoinedItems(tables, o))] :
                o \in {x \in tables.orders :
                          JoinedPayments(tables, x) = {}}},
               "order_id")

\* the payments without orders: payments p LEFT JOIN orders o
\* WHERE o.order_id IS NULL
PaymentsWithoutOrders(tables) ==
    OrderByKey({[payment_id |-> p.payment_id, order_id |-> p.order_id,
                 amount |-> p.amount] :
                p \in {x \in tables.payments :
                          \A o \in tables.orders :
                              o.order_id # x.order_id}},
               "payment_id")

\* what the script prints, section by section, and the exception that ends
\* it: ZeroDivisionError in the statistics when the query returns no row,
\* TypeError in the detailed results at the first row of an order without
\* payment
CheckOutput(tables) ==
    LET results == ReconcileQuery(tables)
        total_orders == Len(results)
        matching == Cardinality({i \in DOMAIN results :
                                    results[i].status_check = "MATCH"})
        mismatching == total_orders - matching
        raised == IF total_orders = 0 THEN "ZeroDivisionError"
                  ELSE IF \E i \in DOMAIN results :
                              results[i].difference = Null
                       THEN "TypeError" ELSE "none"
    IN  [raised |-> raised,
         total_orders |-> total_orders,
         matching |-> IF total_orders = 0 THEN Null ELSE <<matching>>,
         mismatching |-> IF total_orders = 0 THEN Null ELSE <<mismatching>>,
         detailed |-> PrintedRows(results),
         mismatches |->
             IF raised = "none"
             THEN SelectRows(results,
                             {r \in {results[i] : i \in DOMAIN results} :
                                 r.status_check = "MISMATCH"})
             ELSE <<>>,
         no_payment |->
             IF raised = "none" THEN OrdersWithoutPayments(tables)
             ELSE <<>>,
         orphan_payments |->
             IF raised = "none" THEN PaymentsWithoutOrders(tables)
             ELSE <<>>]

\* one run of the script
CheckPaymentAmounts ==
    /\ out' = Printed("check_payment_amounts", CheckOutput(db))
    /\ UNCHANGED <<csv, db, ingest, gen, written>>

(* The databases the script is run on: orders 1..n, line items and         *)
(* payments as an ingestion leaves them (unique keys, foreign keys         *)
(* unchecked, any number of payments for an order).                        *)

MaxPayments == 2    \* rows of the payments table

\* 5.00, 5.01 and 10.00
PaymentAmounts == {500, 501, 1000}

ReconcileDatabase(n, item_of, payment_of, amount) ==
    [customers |-> {}, products |-> {},
     orders |-> {[order_id |-> k, customer_id |-> 1,
                  order_date |-> IsoFormat(Day(2006, 1, 15)),
                  status |-> "shipped"] : k \in 1..n},
     order_items |-> {[item_id |-> k, order_id |-> item_of[k],
                       product_id |-> 1, quantity |-> 1, price |-> 500] :
                      k \in DOMAIN item_of},
     payments |-> {[payment_id |-> k, amount |-> amount[k],
                    order_id |-> payment_of[k],
                    payment_date |-> IsoFormat(Day(2006, 1, 15))] :
                   k \in DOMAIN payment_of}]

InitReconcile ==
    /\ csv = NoCsv
    /\ \E n \in 0..MaxOrders, m \in 0..MaxItems, k \in 0..MaxPayments :
          \E item_of \in [1..m -> 1..MaxOrders],
             payment_of \in [1..k -> 1..MaxOrders],
             amount \in [1..k -> PaymentAmounts] :
                db = ReconcileDatabase(n, item_of, payment_of, amount)
    /\ ingest = NotIngested
    /\ out = NoOutput
    /\ gen = NotGenerating
    /\ written = 0

NextReconcile == CheckPaymentAmounts

SpecReconcile == InitReconcile /\ [][NextReconcile]_vars

----------------------------------------------------------------------------
(* End to end: generatedata.py in a directory without CSV files, then      *)
(* ingest_to_sqlite.py into the empty database, then                       *)
(* check_payment_amounts.py.                                               *)

IngestGenerated ==
    /\ gen.pc = "payments"
    /\ ingest.runs = 0
    /\ Ingest

CheckIngested ==
    /\ ingest.result = "ok"
    /\ out = NoOutput
    /\ CheckPaymentAmounts

NextEndToEnd ==
    \/ NextGen
    \/ IngestGenerated
    \/ CheckIngested

SpecEndToEnd == InitGen /\ [][NextEndToEnd]_vars

----------------------------------------------------------------------------
(* Loading CSV files: the working directory starts without CSV files and   *)
(* with an empty database.                                                 *)

Init ==
    /\ csv = NoCsv
    /\ db = EmptyDb
    /\ ingest = NotIngested
    /\ out = NoOutput
    /\ gen = NotGenerating
    /\ written = 0

Next ==
    \/ WriteCsvFiles
    \/ Ingest

Spec == Init /\ [][Next]_vars

----------------------------------------------------------------------------
(* Claims about ingest_to_sqlite.py.                                       *)

\* the index of the last row of a CSV file with the key of row i
LastWithKey(rows, key, i) ==
    CHOOSE j \in DOMAIN rows :
        /\ rows[j][key] = rows[i][key]
        /\ \A k \in DOMAIN rows : rows[k][key] = rows[i][key] => k <= j

\* the rows of a table with the primary key of row i of a CSV file
RowsWithKey(table, key, rows, i) == {r \in table : r[key] = rows[i][key]}

\* C5: ingestion is idempotent: a successful run that directly follows a
\* successful run on the same CSV files leaves the five tables as they were.
C5_IngestIdempotent ==
    [][(ingest.result = "ok" /\ ingest'.result = "ok"
            /\ ingest'.runs = ingest.runs + 1) => db' = db]_vars

\* the second run in a row has completed, on an order_items.csv with one
\* row and a table that held another row before
C5_Witness ==
    /\ ingest = [result |-> "ok", runs |-> 2]
    /\ Len(csv.order_items) = 1
    /\ Cardinality(db.order_items) = 2

\* the text of a CSV date as the ISO text of the same calendar day
C6_IsoOf(s) ==
    IF s[2] = "/"
    THEN <<Tok(s[5].v, 4), "-", Tok(s[1].v, 2), "-", Tok(s[3].v, 2)>>
    ELSE <<Tok(s[1].v, 4), "-", Tok(s[3].v, 2), "-", Tok(s[5].v, 2)>>

\* C6: ingestion is an upsert by primary key: after a successful run every
\* primary key of a CSV file has exactly one row in its table, holding the
\* values of the last CSV row with that key (dates in ISO form).
C6_UpsertByPrimaryKey ==
    ingest.result = "ok" =>
        /\ \A i \in DOMAIN csv.customers :
              LET row == csv.customers[LastWithKey(csv.customers, "customer_id", i)]
              IN  RowsWithKey(db.customers, "customer_id", csv.customers, i)
                    = {[customer_id |-> row.customer_id,
                        customer_name |-> row.customer_name]}
        /\ \A i \in DOMAIN csv.products :
              LET row == csv.products[LastWithKey(csv.products, "product_id", i)]
              IN  RowsWithKey(db.products, "product_id", csv.products, i)
                    = {[product_id |-> row.product_id, price |-> row.price]}
        /\ \A i \in DOMAIN csv.orders :
              LET row == csv.orders[LastWithKey(csv.orders, "order_id", i)]
              IN  RowsWithKey(db.orders, "order_id", csv.orders, i)
                    = {[order_id |-> row.order_id,
                        customer_id |-> row.customer_id,
                        order_date |-> C6_IsoOf(row.order_date),
                        status |-> row.status]}
        /\ \A i \in DOMAIN csv.order_items :
              LET row == csv.order_items[LastWithKey(csv.order_items, "item_id", i)]
              IN  RowsWithKey(db.order_items, "item_id", csv.order_items, i)
                    = {[item_id |-> row.item_id, order_id |-> row.order_id,
                        product_id |-> row.product_id,
                        quantity |-> row.quantity, price |-> row.price]}
        /\ \A i \in DOMAIN csv.payments :
              LET row == csv.payments[LastWithKey(csv.payments, "payment_id", i)]
              IN  RowsWithKey(db.payments, "payment_id", csv.payments, i)
                    = {[payment_id |-> row.payment_id, amount |-> row.amount,
                        order_id |-> row.order_id,
                        payment_date |-> C6_IsoOf(row.payment_date)]}

\* a successful run on an order_items.csv whose two rows share the item_id
\* and differ in the other columns
C6_Witness ==
    /\ ingest.result = "ok"
    /\ Len(csv.order_items) = 2
    /\ csv.order_items[1].item_id = csv.order_items[2].item_id
    /\ csv.order_items[1] # csv.order_items[2]

\* C7: the foreign keys of the schema hold in every state of the database:
\* orders.customer_id is a customer, order_items.order_id and
\* payments.order_id are orders, order_items.product_id is a product.
C7_ForeignKeysHold ==
    /\ \A o \in db.orders :
          \E c \in db.customers : c.customer_id = o.customer_id
    /\ \A i \in db.order_items :
          /\ \E o \in db.orders : o.order_id = i.order_id
          /\ \E p \in db.products : p.product_id = i.product_id
    /\ \A p \in db.payments :
          \E o \in db.orders : o.order_id = p.order_id

\* s is text of the form MM/DD/YYYY, or of the form YYYY-MM-DD, that names
\* a day of the calendar
C8_WellFormed(s) ==
    \/ /\ s[2] = "/" /\ s[4] = "/"
       /\ s[1].w \in {1, 2} /\ s[3].w \in {1, 2} /\ s[5].w = 4
       /\ ValidDate(s[5].v, s[1].v, s[3].v)
    \/ /\ s[2] = "-" /\ s[4] = "-"
       /\ s[1].w = 4 /\ s[3].w \in {1, 2} /\ s[5].w \in {1, 2}
       /\ ValidDate(s[1].v, s[3].v, s[5].v)

\* text of the form YYYY-MM-DD, zero padded, that names a day of the calendar
C8_IsIso(s) ==
    /\ s[2] = "-" /\ s[4] = "-"
    /\ s[1].w = 4 /\ s[3].w = 2 /\ s[5].w = 2
    /\ ValidDate(s[1].v, s[3].v, s[5].v)

\* the calendar day a well-formed date text names
C8_DayOf(s) ==
    IF s[2] = "/" THEN <<s[5].v, s[1].v, s[3].v>>
    ELSE <<s[1].v, s[3].v, s[5].v>>

\* the text stored for the order_id / payment_id of row i of a CSV file
C8_StoredOrderDate(i) ==
    (CHOOSE o \in db.orders : o.order_id = csv.orders[i].order_id).order_date

C8_StoredPaymentDate(i) ==
    (CHOOSE p \in db.payments :
        p.payment_id = csv.payments[i].payment_id).payment_date

\* C8: a run of the ingestion raises exactly when a date of orders.csv or
\* payments.csv is neither MM/DD/YYYY nor YYYY-MM-DD; every stored date is
\* in ISO form and names the day its CSV text names, so one day given in
\* either format is stored as one value.
C8_DateParsing ==
    /\ \A o \in db.orders : C8_IsIso(o.order_date)
    /\ \A p \in db.payments : C8_IsIso(p.payment_date)
    /\ (ingest.runs > 0 /\ DOMAIN csv = CsvNames) =>
          (ingest.result = "raised" <=>
             \/ \E i \in DOMAIN csv.orders :
                   ~C8_WellFormed(csv.orders[i].order_date)
             \/ \E i \in DOMAIN csv.payments :
                   ~C8_WellFormed(csv.payments[i].payment_date))
    /\ ingest.result = "ok" =>
          /\ \A i \in DOMAIN csv.orders :
                i = LastWithKey(csv.orders, "order_id", i) =>
                    C8_DayOf(C8_StoredOrderDate(i))
                        = C8_DayOf(csv.orders[i].order_date)
          /\ \A i \in DOMAIN csv.payments :
                i = LastWithKey(csv.payments, "payment_id", i) =>
                    C8_DayOf(C8_StoredPaymentDate(i))
                        = C8_DayOf(csv.payments[i].payment_date)

\* a successful run stored one value for an order date given as MM/DD/YYYY
\* and a payment date given as YYYY-MM-DD
C8_Witness ==
    /\ ingest.result = "ok"
    /\ \E i \in DOMAIN csv.orders : \E j \in DOMAIN csv.payments :
          /\ csv.orders[i].order_date[2] = "/"
          /\ csv.payments[j].payment_date[2] = "-"
          /\ C8_StoredOrderDate(i) = C8_StoredPaymentDate(j)

----------------------------------------------------------------------------
(* Claims about the forecast scripts.                                      *)

ForecastScripts ==
    {"run_sales_forecast_simple", "run_sales_forecast",
     "run_sales_forecast_compatible", "run_sales_forecast_with_graphs"}

\* the <<year, month>> of a stored date and of a printed 'YYYY-MM'
C1_MonthOfDate(date) == <<date[1].v, date[3].v>>
C1_MonthOfText(month) == <<month[1].v, month[3].v>>

\* the line items whose order has its order_date in the month
C1_ItemsOf(month) ==
    {i \in db.order_items :
        \E o \in db.orders :
            o.order_id = i.order_id /\ C1_MonthOfDate(o.order_date) = month}

\* the sum of quantity * price over the items with item_id <= n
RECURSIVE C1_Total(_, _)
C1_Total(items, n) ==
    IF n = 0 THEN 0
    ELSE C1_Total(items, n - 1)
         + (IF \E i \in items : i.item_id = n
            THEN LET i == CHOOSE x \in items : x.item_id = n
                 IN  i.quantity * i.price
            ELSE 0)

C1_Before(a, b) == a[1] < b[1] \/ (a[1] = b[1] /\ a[2] < b[2])

\* C1: every forecast script reports exactly the months that have a line
\* item, in ascending order, each with the sum of quantity * price over the
\* line items of the orders of that month.
C1_MonthlyRevenue ==
    out.script \in ForecastScripts =>
        LET rows == out.printed.rows
            months == {C1_MonthOfDate(o.order_date) :
                         o \in {x \in db.orders :
                                  \E i \in db.order_items :
                                      i.order_id = x.order_id}}
        IN  /\ {C1_MonthOfText(rows[k].month) : k \in DOMAIN rows} = months
            /\ \A k \in DOMAIN rows :
                  /\ k > 1 => C1_Before(C1_MonthOfText(rows[k - 1].month),
                                        C1_MonthOfText(rows[k].month))
                  /\ rows[k].monthly_revenue
                        = C1_Total(C1_ItemsOf(C1_MonthOfText(rows[k].month)),
                                   MaxItems)

\* a script has reported two months, the later one from the order with the
\* lower order_id
C1_Witness ==
    /\ out.script \in ForecastScripts
    /\ Len(out.printed.rows) = 2
    /\ \E a, b \in db.orders :
          /\ a.order_id < b.order_id
          /\ C1_Before(C1_MonthOfDate(b.order_date),
                       C1_MonthOfDate(a.order_date))

\* C2: with two or more months of revenue, the printed forecast for month
\* k = 1, 2, 3 is the revenue of the last month plus k times the average
\* of the month-over-month revenue deltas.
C2_LinearForecast ==
    (/\ out.script \in {"run_sales_forecast_simple", "run_sales_forecast",
                         "run_sales_forecast_compatible"}
     /\ Len(out.printed.rows) >= 2) =>
        LET rows == out.printed.rows
            n == Len(rows)
            deltas == [k \in 1..(n - 1) |->
                         rows[k + 1].monthly_revenue - rows[k].monthly_revenue]
        IN  out.printed.forecast
              = [k \in 1..3 |->
                    RoundDiv(rows[n].monthly_revenue * (n - 1)
                                 + k * SumSeq(deltas), n - 1)]

\* C3: the LAG of run_sales_forecast_simple.py and the self-join of
\* run_sales_forecast_compatible.py report the same previous-month
\* revenue, revenue change and percent change for every month of a database.
C3_LagEquivalence ==
    [][(/\ out.script = "run_sales_forecast_simple"
        /\ out'.script = "run_sales_forecast_compatible") =>
          /\ Len(out'.printed.rows) = Len(out.printed.rows)
          /\ \A k \in DOMAIN out.printed.rows :
                LET a == out.printed.rows[k]
                    b == out'.printed.rows[k]
                IN  /\ a.month = b.month
                    /\ a.previous_month_revenue = b.previous_month_revenue
                    /\ a.revenue_change = b.revenue_change
                    /\ a.percent_change = b.percent_change]_vars

\* C4: run_sales_forecast_simple.py, run_sales_forecast_compatible.py and
\* run_sales_forecast_with_graphs.py print the same three forecast values
\* for a database.
C4_SameForecast ==
    [][(/\ out.script \in {"run_sales_forecast_simple",
                            "run_sales_forecast_compatible",
                            "run_sales_forecast_with_graphs"}
        /\ out'.script \in {"run_sales_forecast_simple",
                             "run_sales_forecast_compatible",
                             "run_sales_forecast_with_graphs"}
        /\ db' = db) =>
          out'.printed.forecast = out.printed.forecast]_vars

----------------------------------------------------------------------------
(* Claims about generatedata.py.                                           *)

\* the values of a column of a CSV file
C9_Column(rows, column) == {rows[i][column] : i \in DOMAIN rows}

\* no value of the column is in two rows
C9_Unique(rows, column) ==
    \A i, j \in DOMAIN rows : rows[i][column] = rows[j][column] => i = j

\* C9: when generatedata.py has written its five files, every customer_id
\* of orders.csv is a customer_id of customers.csv, every order_id and
\* product_id of order_items.csv is in orders.csv and products.csv, every
\* order_id of payments.csv is in orders.csv, and no file has two rows with
\* the same primary key
C9_GeneratedConsistent ==
    gen.pc = "payments" =>
        /\ C9_Column(csv.orders, "customer_id")
               \subseteq C9_Column(csv.customers, "customer_id")
        /\ C9_Column(csv.order_items, "order_id")
               \subseteq C9_Column(csv.orders, "order_id")
        /\ C9_Column(csv.order_items, "product_id")
               \subseteq C9_Column(csv.products, "product_id")
        /\ C9_Column(csv.payments, "order_id")
               \subseteq C9_Column(csv.orders, "order_id")
        /\ C9_Unique(csv.customers, "customer_id")
        /\ C9_Unique(csv.products, "product_id")
        /\ C9_Unique(csv.orders, "order_id")
        /\ C9_Unique(csv.order_items, "item_id")
        /\ C9_Unique(csv.payments, "payment_id")

\* all five files written; two orders of different customers, each with two
\* items
C9_Witness ==
    /\ gen.pc = "payments"
    /\ Cardinality(C9_Column(csv.orders, "customer_id")) > 1
    /\ \A i \in DOMAIN csv.orders :
           Cardinality({j \in DOMAIN csv.order_items :
                           csv.order_items[j].order_id
                               = csv.orders[i].order_id}) > 1
    /\ Len(csv.payments) = Len(csv.orders)

----------------------------------------------------------------------------
(* Claims about check_payment_amounts.py.                                  *)

\* the line-item total of an order: quantity * price over its own items
C10_LineItemTotal(order_id) ==
    SumItems({oi \in db.order_items : oi.order_id = order_id})

\* C10: in the detailed results of check_payment_amounts.py, the status of
\* a row with a payment amount is 'MATCH' exactly when the line-item total
\* of the row's order and the payment amount differ by less than 0.01, and
\* 'MISMATCH' otherwise
C10_MatchFlag ==
    out.script = "check_payment_amounts" =>
        \A i \in DOMAIN out.printed.detailed :
            LET row == out.printed.detailed[i]
            IN  row.payment_amount # Null =>
                    row.status_check
                        = IF Abs(C10_LineItemTotal(row.order_id)
                                     - row.payment_amount[1]) < 1
                          THEN "MATCH" ELSE "MISMATCH"

\* C11: after a run of check_payment_amounts.py the orders listed under
\* 'ORDERS WITHOUT PAYMENTS' are exactly the orders no payment refers to,
\* and the payments listed under 'PAYMENTS WITHOUT ORDERS' are exactly the
\* payments whose order_id is no order's (so both sections are reached
\* whenever such rows exist)
C11_OrphanRows ==
    out.script = "check_payment_amounts" =>
        /\ {out.printed.no_payment[i].order_id :
                i \in DOMAIN out.printed.no_payment}
               = {o.order_id : o \in {x \in db.orders :
                     \A p \in db.payments : p.order_id # x.order_id}}
        /\ {out.printed.orphan_payments[i].payment_id :
                i \in DOMAIN out.printed.orphan_payments}
               = {p.payment_id : p \in {x \in db.payments :
                     \A o \in db.orders : o.order_id # x.order_id}}

\* C12: the order_total of every row of the detailed results is the sum of
\* quantity * price over the items of the row's order (0 without items),
\* however many payments refer to the order
C12_OrderTotalOwnItems ==
    out.script = "check_payment_amounts" =>
        \A i \in DOMAIN out.printed.detailed :
            out.printed.detailed[i].order_total
                = SumItems({oi \in db.order_items :
                               oi.order_id
                                   = out.printed.detailed[i].order_id})

\* C13: when run_sales_forecast_compatible.py executes its overall-trend
\* query and the query raises, the except branch prints the slope
\* (last month's revenue - first month's revenue) / (number of months - 1),
\* 0 for a single month, with its direction, and the script goes on to
\* print the three forecast lines and 'Analysis Complete!'; the monthly
\* table and the summary come from queries without window functions
C13_FallbackWorks ==
    (/\ out.script = "run_sales_forecast_compatible"
     /\ out.printed.trend.query = "OperationalError") =>
        LET rows == out.printed.rows
            n == Len(rows)
            delta == rows[n].monthly_revenue - rows[1].monthly_revenue
        IN  /\ n >= 1
            /\ out.printed.summary.total_months = n
            /\ out.printed.trend.path = "except"
            /\ out.printed.trend.slope
                   = IF n = 1 THEN 0 ELSE RoundDiv(delta, n - 1)
            /\ out.printed.trend.direction
                   = IF n > 1 /\ delta > 0 THEN "Positive Trend (Growing)"
                     ELSE IF n > 1 /\ delta < 0
                          THEN "Negative Trend (Declining)"
                     ELSE "Stable"
            /\ Len(out.printed.forecast) = 3
            /\ out.printed.complete

\* the except branch has printed a negative slope
C13_Witness ==
    /\ out.script = "run_sales_forecast_compatible"
    /\ out.printed.trend.query = "OperationalError"
    /\ out.printed.trend.path = "except"
    /\ out.printed.trend.slope < 0
    /\ out.printed.complete

\* the number of days from 2005-12-31 to a day of 2006..2008
RECURSIVE C14_DaysBeforeMonth(_, _)
C14_DaysBeforeMonth(y, m) ==
    IF m = 1 THEN 0
    ELSE C14_DaysBeforeMonth(y, m - 1) + DaysInMonth(y, m - 1)

C14_DayNumber(day) ==
    (day.y - 2006) * 365 + C14_DaysBeforeMonth(day.y, day.m) + day.d

\* C14: in the generated files every payment is dated on or after the
\* order date of its order, at most 7 days after it, and not after
\* 2007-12-31
C14_PaymentDateWindow ==
    gen.pc = "payments" =>
        \A i \in DOMAIN csv.payments :
            \A j \in DOMAIN csv.orders :
                csv.orders[j].order_id = csv.payments[i].order_id =>
                    LET paid == C14_DayNumber(
                                    ParseMDY(csv.payments[i].payment_date))
                        ordered == C14_DayNumber(
                                       ParseMDY(csv.orders[j].order_date))
                    IN  /\ ordered <= paid
                        /\ paid <= ordered + 7
                        /\ paid <= C14_DayNumber(Day(2007, 12, 31))

\* one payment 7 days after its order, in the next month, and one cut back
\* to 2007-12-31, 3 days after its order
C14_Witness ==
    /\ gen.pc = "payments"
    /\ \E i, j \in DOMAIN csv.payments :
          /\ ParseMDY(csv.orders[i].order_date) = Day(2006, 2, 27)
          /\ ParseMDY(csv.payments[i].payment_date) = Day(2006, 3, 6)
          /\ ParseMDY(csv.orders[j].order_date) = Day(2007, 12, 28)
          /\ ParseMDY(csv.payments[j].payment_date) = Day(2007, 12, 31)

\* C15: after generatedata.py, ingest_to_sqlite.py into the empty database
\* and check_payment_amounts.py, every order has an item and exactly one
\* payment, the script reports every order as 'MATCH', and it lists no order
\* without payment and no payment without order
C15_EndToEndMatch ==
    (out.script = "check_payment_amounts" /\ gen.pc = "payments") =>
        /\ \A o \in db.orders :
              /\ \E oi \in db.order_items : oi.order_id = o.order_id
              /\ Cardinality({p \in db.payments :
                                 p.order_id = o.order_id}) = 1
        /\ out.printed.raised = "none"
        /\ out.printed.total_orders = Cardinality(db.orders)
        /\ out.printed.matching = <<Cardinality(db.orders)>>
        /\ Len(out.printed.detailed) = Cardinality(db.orders)
        /\ \A i \in DOMAIN out.printed.detailed :
              out.printed.detailed[i].status_check = "MATCH"
        /\ out.printed.no_payment = <<>>
        /\ out.printed.orphan_payments = <<>>

\* the report on a generated database with an order of two items of
\* different quantities
C15_Witness ==
    /\ out.script = "check_payment_amounts"
    /\ gen.pc = "payments"
    /\ Cardinality(db.orders) > 1
    /\ \E a, b \in db.order_items :
          a.order_id = b.order_id /\ a.quantity # b.quantity
    /\ \E i \in DOMAIN out.printed.detailed :
          out.printed.detailed[i].status_check = "MATCH"

\* C16: in the summary statistics of every forecast script, 'Total Months
\* Analyzed' is the number of months with revenue and 'Total Revenue' is
\* the sum of the revenues of all those months, the first one included
C16_SummaryTotals ==
    out.script \in ForecastScripts =>
        LET rows == out.printed.rows
        IN  /\ out.printed.summary.total_months = Len(rows)
            /\ rows # <<>> =>
                  out.printed.summary.total_revenue
                      = <<SumSeq([k \in DOMAIN rows |->
                                     rows[k].monthly_revenue])>>

\* C17: for a database with two or more months of revenue, the overall
\* slope of trend_query and the slope of the except branch of
\* run_sales_forecast_compatible.py are the same amount with the same trend
\* direction (a lower last month than first month is 'Negative Trend
\* (Declining)' for both)
C17_TrendPathsAgree ==
    (/\ out.script = "run_sales_forecast_compatible"
     /\ Len(out.printed.rows) >= 2) =>
        LET primary ==
                TrendQuerySlope(OrderByYearMonth(MonthlyRevenue(db)))
            fallback == FallbackSlope(out.printed.rows)
        IN  /\ primary # Null
            /\ primary[1] = RoundDiv(fallback.n, fallback.d)
            /\ TrendDirection(primary[1]) = TrendDirection(fallback.n)

\* the first day of the k-th calendar month after a month
C18_MonthAfter(month, k) ==
    LET index == month[1].v * 12 + (month[3].v - 1) + k
    IN  Day(index \div 12, (index % 12) + 1, 1)

\* C18: when run_sales_forecast_with_graphs.py has months to plot, its
\* forecast dates are the first days of the three calendar months after the
\* last month with data, whatever that month is, and computing them does not
\* raise
C18_ForecastDates ==
    (/\ out.script = "run_sales_forecast_with_graphs"
     /\ out.printed.rows # <<>>) =>
        LET rows == out.printed.rows
        IN  /\ out.printed.raised = "none"
            /\ out.printed.forecast_dates
                   = [k \in 1..3 |-> C18_MonthAfter(rows[Len(rows)].month, k)]

\* the revenue reported for the calendar month before the month of row k,
\* 0 when that month is not reported
C19_CalendarPrevious(rows, k) ==
    LET month == C1_MonthOfText(rows[k].month)
        before == IF month[2] = 1 THEN <<month[1] - 1, 12>>
                  ELSE <<month[1], month[2] - 1>>
        found == {j \in DOMAIN rows : C1_MonthOfText(rows[j].month) = before}
    IN  IF found = {} THEN 0
        ELSE rows[CHOOSE j \in found : TRUE].monthly_revenue

\* C19: in the monthly table of every forecast script the trend label of a
\* month is 'Growing', 'Declining' or 'Stable' as its revenue_change is
\* positive, negative or zero; revenue_change is the month's revenue minus
\* the revenue of the previous month (the month reported before it, or the
\* calendar month before it); for the first month reported revenue_change is
\* the whole revenue and percent_change is 0
C19_TrendLabels ==
    out.script \in ForecastScripts =>
        \A k \in DOMAIN out.printed.rows :
            LET rows == out.printed.rows
                row == rows[k]
            IN  /\ row.revenue_change > 0 => row.trend = "Growing"
                /\ row.revenue_change < 0 => row.trend = "Declining"
                /\ row.revenue_change = 0 => row.trend = "Stable"
                /\ k = 1 => /\ row.revenue_change = row.monthly_revenue
                            /\ row.percent_change = 0
                /\ k > 1 =>
                      row.revenue_change
                          \in {row.monthly_revenue
                                   - rows[k - 1].monthly_revenue,
                               row.monthly_revenue
                                   - C19_CalendarPrevious(rows, k)}

\* C20: in the monthly table of run_sales_forecast_simple.py and
\* run_sales_forecast.py, forecast_next_month of a month is its revenue plus
\* the average, rounded to cents, of the revenue_change of the months
\* reported up to and including it, the first month's revenue_change being
\* its whole revenue
C20_ForecastNextMonth ==
    out.script \in {"run_sales_forecast_simple", "run_sales_forecast"} =>
        \A k \in DOMAIN out.printed.rows :
            LET rows == out.printed.rows
                changes == [j \in 1..k |->
                               IF j = 1 THEN rows[1].monthly_revenue
                               ELSE rows[j].monthly_revenue
                                        - rows[j - 1].monthly_revenue]
            IN  rows[k].forecast_next_month
                    = rows[k].monthly_revenue
                          + RoundDiv(SumSeq(changes), k)

\* a table of two months in which the second month's forecast is not its
\* revenue plus its own change
C20_Witness ==
    /\ out.script \in {"run_sales_forecast_simple", "run_sales_forecast"}
    /\ Len(out.printed.rows) = 2
    /\ out.printed.rows[2].revenue_change < 0
    /\ out.printed.rows[2].forecast_next_month
           > out.printed.rows[2].monthly_revenue

\* C21: in the report of check_payment_amounts.py 'Total Orders' is the
\* number of rows of the orders table, and the matching and mismatching
\* counts add up to it, also when an order has several payments
C21_TotalOrders ==
    out.script = "check_payment_amounts" =>
        /\ out.printed.total_orders = Cardinality(db.orders)
        /\ out.printed.matching # Null =>
              out.printed.matching[1] + out.printed.mismatching[1]
                  = Cardinality(db.orders)

\* C22: a run of ingest_to_sqlite.py that raises while reading a CSV file
\* commits no row: all five tables are as they were before the run
C22_AllOrNothing ==
    [][(ingest'.runs = ingest.runs + 1 /\ IngestRaises(csv)) => db' = db]_vars

\* a run has raised after statements of its transaction had changed tables
C22_Witness ==
    /\ ingest.result = "raised"
    /\ Pending(db, csv) # db

(* The analysis scripts that print 'Analysis complete', on the databases    *)
(* of the forecast and of the reconciliation runs.                          *)

InitAnalysis == InitForecast \/ InitReconcile

NextAnalysis ==
    \/ CheckPaymentAmounts
    \/ RunSalesForecastSimple
    \/ RunSalesForecastCompatible

SpecAnalysis == InitAnalysis /\ [][NextAnalysis]_vars

AnalysisScripts ==
    {"check_payment_amounts", "run_sales_forecast_simple",
     "run_sales_forecast_compatible"}

\* C23: check_payment_amounts.py, run_sales_forecast_simple.py and
\* run_sales_forecast_compatible.py run to their last line without raising
\* on every database that has the five tables
C23_NoScriptRaises ==
    out.script \in AnalysisScripts => out.printed.raised = "none"

====
